---- MODULE Spec2Model ----
(***************************************************************************)
(* Model of the file stitcher's two scripts:                               *)
(*   combine_files_to_txt.py  (version "txt": recursive folder add,       *)
(*                             extension filter, binary sniffing)         *)
(*   combine_files_to_pdf.py  (version "pdf": shallow folder add)         *)
(*                                                                         *)
(* Text is modelled as a sequence of code points (naturals), bytes as      *)
(* naturals 0..255, a path as the sequence of its segments (each a text).  *)
(***************************************************************************)
EXTENDS Integers, Sequences, FiniteSets, TLC

VARIABLES
    version,        \* which script runs: "txt" or "pdf"
    fs_kind,        \* filesystem: kind of every path ("file", "dir", "none")
    fs_denied,      \* filesystem: paths whose open/list raises PermissionError
    current_dir,    \* FileNavigator.current_dir
    nav,            \* rows of the navigator Listbox
    cart,           \* rows of the cart Listbox
    cart_files,     \* FileNavigator.cart_files
    ext_filter,     \* text of the extension filter entry (txt)
    name_filter,    \* text of the search entry (txt)
    phase,          \* "picking"; "dialog" (the message box of _refresh is
                    \* open); "warning" (the message box of _accept is open);
                    \* "dialog_closed", "warning_closed" (pdf: the picker is
                    \* destroyed, the box still open); "closed" (picker
                    \* gone, main resumes); "done"
    selected_files, \* the selected_files attribute: "unset" or a list of paths
    out_file,       \* the output document: "none" or its text
    raised,         \* exception that left the callback of the last event
    crash,          \* exception that left the main program ("none" if none)
    dialog,         \* message box shown during the last event ("none" if none)
    nav_sel,        \* selected rows of the navigator Listbox (indexes from 1)
    last_cmd,       \* history: the event that led to this state
    log,            \* history (SpecOrder): the add and remove events so far
    call,           \* arguments of the function under check (function specs)
    ret             \* its result (function specs)

vars == <<version, fs_kind, fs_denied, current_dir, nav, cart, cart_files,
          ext_filter, name_filter, phase, selected_files, out_file, raised,
          crash, dialog, nav_sel, last_cmd, log, call, ret>>

gui_vars == <<version, fs_kind, fs_denied, current_dir, nav, cart, cart_files,
              ext_filter, name_filter, phase, selected_files, out_file, raised,
              crash, dialog, nav_sel, last_cmd, log>>

(***************************************************************************)
(* Program constants                                                       *)
(***************************************************************************)
HEADER_RULE == 80
HEADER_RULE_LEN == 80
BINARY_SAMPLE == 2048
\* NON_PRINTABLE_THRESHOLD = 0.30, kept as the fraction 30/100
NON_PRINTABLE_THRESHOLD_NUM == 30
NON_PRINTABLE_THRESHOLD_DEN == 100

(***************************************************************************)
(* Text primitives (Python str / bytes methods)                            *)
(***************************************************************************)
Min(a, b) == IF a < b THEN a ELSE b

\* s[:n]
Take(s, n) == SubSeq(s, 1, Min(Len(s), n))

\* s[n:]
Drop(s, n) == SubSeq(s, Min(Len(s), n) + 1, Len(s))

\* c * n
Repeat(c, n) == [i \in 1..n |-> c]

\* s.startswith(prefix)
StartsWith(s, prefix) == Len(s) >= Len(prefix) /\ Take(s, Len(prefix)) = prefix

\* str.isspace for a code point below 256
IsSpace(c) == c \in {9, 10, 11, 12, 13, 28, 29, 30, 31, 32, 133, 160}

\* str.lower for a code point (ASCII letters; others in the model have no case)
LowerChar(c) == IF c >= 65 /\ c <= 90 THEN c + 32 ELSE c

Lower(s) == [i \in 1..Len(s) |-> LowerChar(s[i])]

\* s.rstrip(): drop the trailing run of whitespace
RStrip(s) ==
    LET keep == {i \in 1..Len(s) : ~IsSpace(s[i])}
        last == IF keep = {} THEN 0 ELSE CHOOSE i \in keep : \A j \in keep : j <= i
    IN SubSeq(s, 1, last)

\* s.lstrip(): drop the leading run of whitespace
LStrip(s) ==
    LET keep == {i \in 1..Len(s) : ~IsSpace(s[i])}
        first == IF keep = {} THEN Len(s) + 1
                 ELSE CHOOSE i \in keep : \A j \in keep : i <= j
    IN SubSeq(s, first, Len(s))

\* s.strip()
Strip(s) == LStrip(RStrip(s))

\* s.lstrip(chars) / s.rstrip(chars) for a single character
LStripChar(s, c) ==
    LET keep == {i \in 1..Len(s) : s[i] # c}
        first == IF keep = {} THEN Len(s) + 1
                 ELSE CHOOSE i \in keep : \A j \in keep : i <= j
    IN SubSeq(s, first, Len(s))

RStripChar(s, c) ==
    LET keep == {i \in 1..Len(s) : s[i] # c}
        last == IF keep = {} THEN 0 ELSE CHOOSE i \in keep : \A j \in keep : j <= i
    IN SubSeq(s, 1, last)

\* s.split(sep) for a single-character separator: always at least one field
RECURSIVE Split(_, _)
Split(s, sep) ==
    LET hits == {i \in 1..Len(s) : s[i] = sep}
    IN IF hits = {} THEN <<s>>
       ELSE LET i == CHOOSE k \in hits : \A j \in hits : k <= j
            IN <<SubSeq(s, 1, i - 1)>> \o Split(SubSeq(s, i + 1, Len(s)), sep)

\* needle in s (substring test)
Contains(s, needle) ==
    \E i \in 0..(Len(s) - Len(needle)) : SubSeq(s, i + 1, i + Len(needle)) = needle

\* lexicographic order on texts (Python's str <)
StrLess(a, b) ==
    \/ Len(a) < Len(b) /\ Take(b, Len(a)) = a
    \/ \E i \in 1..Min(Len(a), Len(b)) :
          /\ SubSeq(a, 1, i - 1) = SubSeq(b, 1, i - 1)
          /\ a[i] < b[i]

\* concatenation of a sequence of sequences
RECURSIVE Flatten(_)
Flatten(ss) == IF ss = <<>> THEN <<>> ELSE Head(ss) \o Flatten(Tail(ss))

\* x in list
InSeq(x, s) == \E i \in 1..Len(s) : s[i] = x

\* set(list)
Range(l) == {l[i] : i \in 1..Len(l)}

(***************************************************************************)
(* pathlib                                                                 *)
(***************************************************************************)
\* PurePath.suffix of a final path component: the text from the last dot,
\* unless the name has no dot, starts with its only dot, or ends with it
Suffix(name) ==
    LET dots == {i \in 1..Len(name) : name[i] = 46}
        i == IF dots = {} THEN 0 ELSE CHOOSE k \in dots : \A j \in dots : j <= k
    IN IF 1 < i /\ i < Len(name) THEN SubSeq(name, i, Len(name)) ELSE <<>>

(***************************************************************************)
(* combine_files_to_txt.py: the extension filter and the binary sniffer    *)
(***************************************************************************)
\* the set built at line 160 from the stripped filter text
allowed_set(raw) ==
    LET fields == Split(raw, 44)
    IN {<<46>> \o Lower(LStripChar(Strip(fields[i]), 46)) :
           i \in {k \in 1..Len(fields) : Strip(fields[k]) # <<>>}}

\* FileNavigator._allowed_ext; text is ext_filter.get(), name is path.name
allowed_ext(text, name) ==
    LET raw == Strip(text)
    IN IF raw = <<>> THEN TRUE
       ELSE Lower(Suffix(name)) \in allowed_set(raw)

\* b < 32 and b not in (9, 10, 13) or b == 127
non_printable(b) == (b < 32 /\ b \notin {9, 10, 13}) \/ b = 127

\* a slip of the comparison: at the threshold counts as above it
over_threshold_inclusive(non_print, len) ==
    non_print * NON_PRINTABLE_THRESHOLD_DEN >= NON_PRINTABLE_THRESHOLD_NUM * len

\* non_print / len(chunk) > NON_PRINTABLE_THRESHOLD.  The quotient of two
\* integers with 0 < len <= 2048 is a double above the double 0.30 exactly
\* when the exact fraction is above 3/10: fractions other than 3/10 differ
\* from it by at least 1/20480, far more than a rounding error, and 3/10
\* itself rounds to the very double the literal 0.30 denotes.
over_threshold(non_print, len) ==
    non_print * NON_PRINTABLE_THRESHOLD_DEN > NON_PRINTABLE_THRESHOLD_NUM * len

\* FileNavigator._is_binary; rd is the outcome of path.read_bytes():
\* [ok |-> FALSE] when it raises, [ok |-> TRUE, bytes |-> ...] otherwise
is_binary(rd) ==
    IF ~rd.ok THEN TRUE
    ELSE LET chunk == Take(rd.bytes, BINARY_SAMPLE)
             non_print == Cardinality({i \in 1..Len(chunk) : non_printable(chunk[i])})
         IN IF \E i \in 1..Len(chunk) : chunk[i] = 0 THEN TRUE
            ELSE Len(chunk) > 0 /\ over_threshold(non_print, Len(chunk))

\* FileNavigator._should_include
should_include(text, name, rd) == allowed_ext(text, name) /\ ~is_binary(rd)

(***************************************************************************)
(* Paths and file reading                                                  *)
(***************************************************************************)
\* str(path) of an absolute POSIX path: "/" + "/".join(segments)
PathStr(p) ==
    IF p = <<>> THEN <<47>>
    ELSE Flatten([i \in 1..Len(p) |-> <<47>> \o p[i]])

\* pathlib.Path(text): the segments between slashes; empty segments and "."
\* segments are dropped
ParsePath(text) ==
    SelectSeq(Split(text, 47), LAMBDA seg : seg # <<>> /\ seg # <<46>>)

\* text decoding with universal newlines (open(..., newline=None)):
\* "\r\n" and a lone "\r" are read as "\n"
RECURSIVE UniversalNewlines(_)
UniversalNewlines(t) ==
    IF t = <<>> THEN <<>>
    ELSE IF t[1] = 13
         THEN IF Len(t) >= 2 /\ t[2] = 10
              THEN <<10>> \o UniversalNewlines(SubSeq(t, 3, Len(t)))
              ELSE <<10>> \o UniversalNewlines(Tail(t))
         ELSE <<t[1]>> \o UniversalNewlines(Tail(t))

\* whether bytes.decode("utf-8") succeeds.  The files of the model hold
\* ASCII bytes and the byte 255, which no UTF-8 text contains.
Utf8Valid(bytes) == \A i \in 1..Len(bytes) : bytes[i] < 128

\* the text the writers obtain from a readable file:
\*     try: path.read_text(encoding="utf-8")
\*     except UnicodeDecodeError: path.read_bytes().decode("latin-1")
\* latin-1 maps byte b to code point b
read_content(bytes) ==
    IF Utf8Valid(bytes) THEN UniversalNewlines(bytes) ELSE bytes

(***************************************************************************)
(* The writers.  paths is the list handed over, rd[p] the outcome of       *)
(* reading p: [ok |-> TRUE, bytes |-> ...] or [ok |-> FALSE, exc |-> ...]. *)
(* The result is the text left in the output file (the file is created by  *)
(* open("w") before anything is read) and the exception that left the      *)
(* function, "none" if it returned.                                        *)
(***************************************************************************)
\* combine_files_to_txt.py create_txt, one iteration after the other
RECURSIVE create_txt_from(_, _, _)
create_txt_from(paths, rd, doc) ==
    IF paths = <<>> THEN [doc |-> doc, exc |-> "none"]
    ELSE LET p == Head(paths)
             header == PathStr(p)
             doc1 == doc \o <<10>> \o header \o <<10>>
                         \o Repeat(61, Min(HEADER_RULE, Len(header)))
                         \o <<10, 10>>
         IN IF ~rd[p].ok THEN [doc |-> doc1, exc |-> rd[p].exc]
            ELSE create_txt_from(Tail(paths), rd,
                                 doc1 \o read_content(rd[p].bytes) \o <<10>>)

create_txt(paths, rd) == create_txt_from(paths, rd, <<>>)

\* combine_files_to_pdf.py export_to_txt
RECURSIVE export_to_txt_from(_, _, _)
export_to_txt_from(paths, rd, doc) ==
    IF paths = <<>> THEN [doc |-> doc, exc |-> "none"]
    ELSE LET p == Head(paths)
             header == PathStr(p)
             rule == Repeat(61, Min(HEADER_RULE_LEN, Len(header)))
             doc1 == doc \o header \o <<10>> \o rule \o <<10, 10>>
         IN IF ~rd[p].ok THEN [doc |-> doc1, exc |-> rd[p].exc]
            ELSE export_to_txt_from(Tail(paths), rd,
                     doc1 \o RStrip(read_content(rd[p].bytes)) \o <<10, 10>>)

export_to_txt(paths, rd) == export_to_txt_from(paths, rd, <<>>)

(***************************************************************************)
(* The filesystem the picker browses.                                      *)
(*   /h            home directory                                          *)
(*   /h/f.p        a text file that may be replaced by an (empty)          *)
(*                 directory of the same name, and back                    *)
(*   /h/s          a directory whose listing may be denied                 *)
(*   /h/s/b.p      a file with a NUL byte                                  *)
(*   /h/s/c.P      a text file                                             *)
(*   /h/t          a directory                                             *)
(*   /h/t/e.q      a text file                                             *)
(***************************************************************************)
Root == <<>>
Home == <<<<104>>>>
PathF == Home \o <<<<102, 46, 112>>>>
PathS == Home \o <<<<115>>>>
PathB == PathS \o <<<<98, 46, 112>>>>
PathC == PathS \o <<<<99, 46, 80>>>>
PathT == Home \o <<<<116>>>>
PathE == PathT \o <<<<101, 46, 113>>>>

Universe == {Root, Home, PathF, PathS, PathB, PathC, PathT, PathE}

\* what the environment may change while the picker is open
Replaceable == {PathF}
Deniable == {PathS}

InitialKind ==
    [p \in Universe |->
        IF p \in {Root, Home, PathS, PathT} THEN "dir" ELSE "file"]

\* the bytes of each file
Content(p) ==
    CASE p = PathB -> <<0, 1>>
      [] p = PathC -> <<99, 32, 10>>
      [] p = PathE -> <<101>>
      [] OTHER -> <<102, 10>>

KindOf(p) == IF p \in DOMAIN fs_kind THEN fs_kind[p] ELSE "none"

\* Path.is_dir / Path.is_file
is_dir(p) == KindOf(p) = "dir"
is_file(p) == KindOf(p) = "file"

\* outcome of Path.read_bytes / read_text on p: open() is refused (EACCES)
\* before the kind of the path matters
ReadOutcome(p) ==
    IF KindOf(p) = "none" THEN [ok |-> FALSE, exc |-> "FileNotFoundError"]
    ELSE IF p \in fs_denied THEN [ok |-> FALSE, exc |-> "PermissionError"]
    ELSE IF KindOf(p) = "dir" THEN [ok |-> FALSE, exc |-> "IsADirectoryError"]
    ELSE [ok |-> TRUE, bytes |-> Content(p)]

\* the exception of os.listdir / os.scandir / Path.iterdir on p, or "none"
ListError(p) ==
    IF KindOf(p) = "none" THEN "FileNotFoundError"
    ELSE IF KindOf(p) = "file" THEN "NotADirectoryError"
    ELSE IF p \in fs_denied THEN "PermissionError"
    ELSE "none"

\* the names in directory p
NamesIn(p) ==
    {q[Len(q)] : q \in {u \in Universe :
        /\ Len(u) = Len(p) + 1
        /\ SubSeq(u, 1, Len(p)) = p
        /\ KindOf(u) # "none"}}

\* sorted(names), or sorted(names, key=str.lower) when fold is TRUE
SortedNames(names, fold) ==
    CHOOSE l \in [1..Cardinality(names) -> names] :
        \A i, j \in DOMAIN l :
            i < j => /\ l[i] # l[j]
                     /\ ~StrLess(IF fold THEN Lower(l[j]) ELSE l[j],
                                 IF fold THEN Lower(l[i]) ELSE l[i])

\* path.parent
Parent(p) == IF p = <<>> THEN <<>> ELSE SubSeq(p, 1, Len(p) - 1)

\* path / text
Join(p, text) == IF StartsWith(text, <<47>>) THEN ParsePath(text) ELSE p \o ParsePath(text)

\* "DIR▶ " (txt) and "[DIR] " (pdf)
FOLDER_PREFIX == <<68, 73, 82, 9654, 32>>
DIR_PREFIX == <<91, 68, 73, 82, 93, 32>>

(***************************************************************************)
(* Navigation.  A refresh yields the new current_dir, name_filter, rows,   *)
(* the message box it shows, the exception that left it and the phase:     *)
(* "dialog" while mb.showerror waits for the user, "picking" otherwise.    *)
(***************************************************************************)
\* rows of the navigator for directory cur: folders first, then files
listing_txt(cur, nf) ==
    LET entries == SortedNames(NamesIn(cur), TRUE)
        search == Lower(Strip(nf))
        shown == SelectSeq(entries,
                     LAMBDA n : ~(search # <<>> /\ ~Contains(Lower(n), search)))
        dirs == SelectSeq(shown, LAMBDA n : is_dir(cur \o <<n>>))
        files == SelectSeq(shown, LAMBDA n : is_file(cur \o <<n>>))
    IN [i \in 1..Len(dirs) |-> FOLDER_PREFIX \o dirs[i] \o <<47>>] \o files

listing_pdf(cur) ==
    LET entries == SortedNames(NamesIn(cur), TRUE)
        dirs == SelectSeq(entries, LAMBDA n : is_dir(cur \o <<n>>))
        files == SelectSeq(entries, LAMBDA n : is_file(cur \o <<n>>))
    IN [i \in 1..Len(dirs) |-> DIR_PREFIX \o dirs[i]] \o files

\* combine_files_to_txt.py FileNavigator._refresh, up to its return or to
\* the message box of the except branch: the rows are deleted first
refresh_txt(cur, nf) ==
    IF ListError(cur) = "PermissionError"
    THEN [current_dir |-> cur, name_filter |-> nf, nav |-> <<>>,
          dialog |-> "showerror", exc |-> "none", phase |-> "dialog"]
    ELSE IF ListError(cur) # "none"
    THEN [current_dir |-> cur, name_filter |-> nf, nav |-> <<>>,
          dialog |-> "none", exc |-> ListError(cur), phase |-> "picking"]
    ELSE [current_dir |-> cur, name_filter |-> nf, nav |-> listing_txt(cur, nf),
          dialog |-> "none", exc |-> "none", phase |-> "picking"]

\* combine_files_to_pdf.py FileNavigator._refresh
refresh_pdf(cur, nf) ==
    IF ListError(cur) = "PermissionError"
    THEN [current_dir |-> cur, name_filter |-> nf, nav |-> <<>>,
          dialog |-> "showerror", exc |-> "none", phase |-> "dialog"]
    ELSE IF ListError(cur) # "none"
    THEN [current_dir |-> cur, name_filter |-> nf, nav |-> <<>>,
          dialog |-> "none", exc |-> ListError(cur), phase |-> "picking"]
    ELSE [current_dir |-> cur, name_filter |-> nf, nav |-> listing_pdf(cur),
          dialog |-> "none", exc |-> "none", phase |-> "picking"]

refresh(cur, nf) ==
    IF version = "txt" THEN refresh_txt(cur, nf) ELSE refresh_pdf(cur, nf)

\* FileNavigator._go_up: the txt script also clears the search text
go_up(cur, nf) == refresh(Parent(cur), IF version = "txt" THEN <<>> ELSE nf)

\* the variables a refresh assigns; the Listbox loses its selection
Refreshed(r) ==
    /\ current_dir' = r.current_dir
    /\ name_filter' = r.name_filter
    /\ nav' = r.nav
    /\ nav_sel' = {}
    /\ raised' = r.exc
    /\ phase' = r.phase

(***************************************************************************)
(* Cart management.  A cart state is [cart_files, cart, exc]: the list,    *)
(* the rows of the cart Listbox and the exception that ended the handler.  *)
(***************************************************************************)
\* ascending tuple of a set of indexes (Listbox.curselection)
RECURSIVE curselection(_)
curselection(sel) ==
    IF sel = {} THEN <<>>
    ELSE LET m == CHOOSE i \in sel : \A j \in sel : i <= j
         IN <<m>> \o curselection(sel \ {m})

\* slips of _add_to_cart: the membership test left out; the path put first
add_to_cart_unchecked(st, path) ==
    [st EXCEPT !.cart_files = Append(@, path), !.cart = Append(@, PathStr(path))]

add_to_cart_in_front(st, path) ==
    IF ~InSeq(path, st.cart_files)
    THEN [st EXCEPT !.cart_files = <<path>> \o @, !.cart = <<PathStr(path)>> \o @]
    ELSE st

\* combine_files_to_txt.py FileNavigator._add_to_cart
add_to_cart(st, path) ==
    IF ~InSeq(path, st.cart_files)
    THEN [st EXCEPT !.cart_files = Append(@, path), !.cart = Append(@, PathStr(path))]
    ELSE st

\* all orders of the elements of a set
Perms(S) ==
    {l \in [1..Cardinality(S) -> S] : \A i, j \in DOMAIN l : i < j => l[i] # l[j]}

\* the order in which os.scandir yields the names of a directory is not
\* specified: every order is possible, for each directory on its own
scandir(top) == Perms(NamesIn(top))

\* combine_files_to_txt.py _iter_files_recursive: os.walk(folder), top down,
\* errors of scandir ignored (onerror=None), the files of each directory
\* before its subdirectories.  The value is the set of sequences the walk
\* may yield.
RECURSIVE iter_files_recursive(_)
RECURSIVE walk_dirs(_, _)
walk_dirs(top, dirs) ==
    IF dirs = <<>> THEN {<<>>}
    ELSE {a \o b : a \in iter_files_recursive(top \o <<Head(dirs)>>),
                   b \in walk_dirs(top, Tail(dirs))}

iter_files_recursive(top) ==
    IF ListError(top) # "none" THEN {<<>>}
    ELSE UNION {
        LET dirs == SelectSeq(names, LAMBDA n : is_dir(top \o <<n>>))
            files == SelectSeq(names, LAMBDA n : ~is_dir(top \o <<n>>))
        IN {[i \in 1..Len(files) |-> top \o <<files[i]>>] \o w :
               w \in walk_dirs(top, dirs)}
        : names \in scandir(top)}

\* path.name
NameOf(path) == IF path = <<>> THEN <<>> ELSE path[Len(path)]

\* FileNavigator._should_include at the current filter and filesystem
include_now(path) == should_include(ext_filter, NameOf(path), ReadOutcome(path))

\* combine_files_to_txt.py FileNavigator._add_folder, file after file
RECURSIVE add_files(_, _)
add_files(st, files) ==
    IF files = <<>> THEN st
    ELSE add_files(IF include_now(Head(files)) THEN add_to_cart(st, Head(files)) ELSE st,
                   Tail(files))

\* the cart states an add of folder may end in, one per order of the walk
add_folder(st, folder) == {add_files(st, w) : w \in iter_files_recursive(folder)}

\* combine_files_to_txt.py FileNavigator._add_selected, row after row: the
\* set of cart states it may end in
RECURSIVE add_selected_txt(_, _)
add_selected_txt(st, rows) ==
    IF rows = <<>> THEN {st}
    ELSE LET entry == nav[Head(rows)]
             folder == Join(current_dir, RStripChar(Drop(entry, Len(FOLDER_PREFIX)), 47))
             fp == Join(current_dir, entry)
             sts == IF StartsWith(entry, FOLDER_PREFIX)
                    THEN add_folder(st, folder)
                    ELSE IF is_file(fp) /\ include_now(fp)
                         THEN {add_to_cart(st, fp)}
                         ELSE {st}
         IN UNION {add_selected_txt(st1, Tail(rows)) : st1 \in sts}

\* combine_files_to_pdf.py _add_selected, the loop over a folder's children
RECURSIVE add_children(_, _)
add_children(st, children) ==
    IF children = <<>> THEN st
    ELSE LET child == Head(children)
         IN add_children(IF is_file(child) /\ ~InSeq(child, st.cart_files)
                         THEN [st EXCEPT !.cart_files = Append(@, child),
                                         !.cart = Append(@, PathStr(child))]
                         ELSE st,
                         Tail(children))

\* combine_files_to_pdf.py FileNavigator._add_selected, row after row; an
\* exception of iterdir ends the handler
RECURSIVE add_selected_pdf(_, _)
add_selected_pdf(st, rows) ==
    IF rows = <<>> THEN st
    ELSE LET entry == nav[Head(rows)]
             folder_path == Join(current_dir, Drop(entry, 6))
             names == SortedNames(NamesIn(folder_path), FALSE)
             file_path == Join(current_dir, entry)
         IN IF StartsWith(entry, DIR_PREFIX)
            THEN IF ListError(folder_path) # "none"
                 THEN [st EXCEPT !.exc = ListError(folder_path)]
                 ELSE add_selected_pdf(
                          add_children(st, [i \in 1..Len(names) |-> folder_path \o <<names[i]>>]),
                          Tail(rows))
            ELSE add_selected_pdf(
                     IF ~InSeq(file_path, st.cart_files)
                     THEN [st EXCEPT !.cart_files = Append(@, file_path),
                                     !.cart = Append(@, PathStr(file_path))]
                     ELSE st,
                     Tail(rows))

\* list.remove(x): the first occurrence goes; ValueError when there is none
list_remove(l, x) ==
    IF InSeq(x, l)
    THEN LET i == CHOOSE k \in 1..Len(l) : l[k] = x /\ \A j \in 1..(k - 1) : l[j] # x
         IN [list |-> SubSeq(l, 1, i - 1) \o SubSeq(l, i + 1, Len(l)), exc |-> "none"]
    ELSE [list |-> l, exc |-> "ValueError"]

\* FileNavigator._remove_selected (the same in both scripts); rows is
\* reversed(self.cart.curselection())
RECURSIVE remove_selected(_, _)
remove_selected(st, rows) ==
    IF rows = <<>> THEN st
    ELSE LET idx == Head(rows)
             path == ParsePath(st.cart[idx])
             rem == list_remove(st.cart_files, path)
         IN IF rem.exc # "none" THEN [st EXCEPT !.exc = rem.exc]
            ELSE remove_selected(
                     [st EXCEPT !.cart_files = rem.list,
                                !.cart = SubSeq(@, 1, idx - 1) \o SubSeq(@, idx + 1, Len(@))],
                     Tail(rows))

Reversed(l) == [i \in 1..Len(l) |-> l[Len(l) + 1 - i]]

CartState == [cart_files |-> cart_files, cart |-> cart, exc |-> "none"]

(***************************************************************************)
(* The picker as a state machine: one action per callback, per step of     *)
(* __main__ after the window is gone, and per change of the filesystem.    *)
(***************************************************************************)
\* texts typed into the search entry: "" and "D"
NameFilters == {<<>>, <<68>>}
\* texts typed into the extension filter entry: "" and "p"
ExtFilters == {<<>>, <<112>>}

Init ==
    /\ version \in {"txt", "pdf"}
    /\ fs_kind = InitialKind
    /\ fs_denied = {}
    /\ current_dir = Home
    /\ name_filter = <<>>
    /\ nav = IF version = "txt" THEN listing_txt(Home, <<>>) ELSE listing_pdf(Home)
    /\ nav_sel = {}
    /\ cart = <<>>
    /\ cart_files = <<>>
    /\ ext_filter = <<>>
    /\ phase = "picking"
    /\ selected_files = "unset"
    /\ out_file = "none"
    /\ raised = "none"
    /\ crash = "none"
    /\ dialog = "none"
    /\ last_cmd = "start"
    /\ log = <<>>
    /\ call = <<>>
    /\ ret = <<>>

\* the user changes the selection of the navigator (selectmode="extended")
Select ==
    /\ phase = "picking"
    /\ \E sel \in SUBSET (1..Len(nav)) :
          /\ sel # nav_sel
          /\ nav_sel' = sel
    /\ raised' = "none"
    /\ dialog' = "none"
    /\ last_cmd' = "other"
    /\ UNCHANGED <<version, fs_kind, fs_denied, current_dir, nav, cart, cart_files,
                   ext_filter, name_filter, phase, selected_files, out_file, crash>>

\* whether a selected file row names a path that is already in the cart
ReAdds ==
    \E i \in nav_sel :
        /\ ~StartsWith(nav[i], IF version = "txt" THEN FOLDER_PREFIX ELSE DIR_PREFIX)
        /\ InSeq(Join(current_dir, nav[i]), cart_files)

\* the Add button: FileNavigator._add_selected
AddSelected ==
    /\ phase = "picking"
    /\ \E st \in IF version = "txt"
                  THEN add_selected_txt(CartState, curselection(nav_sel))
                  ELSE {add_selected_pdf(CartState, curselection(nav_sel))} :
             /\ cart_files' = st.cart_files
             /\ cart' = st.cart
             /\ raised' = st.exc
    /\ dialog' = "none"
    /\ last_cmd' = IF ReAdds THEN "readd" ELSE "add"
    /\ UNCHANGED <<version, fs_kind, fs_denied, current_dir, nav, nav_sel,
                   ext_filter, name_filter, phase, selected_files, out_file, crash>>

\* the Remove button: FileNavigator._remove_selected.  The cart Listbox has
\* the default selectmode: at most one row is selected.
RemoveSelected ==
    /\ phase = "picking"
    /\ \E rows \in {<<>>} \cup {<<i>> : i \in 1..Len(cart)} :
          LET st == remove_selected(CartState, Reversed(rows))
          IN /\ cart_files' = st.cart_files
             /\ cart' = st.cart
             /\ raised' = st.exc
    /\ dialog' = "none"
    /\ last_cmd' = "remove"
    /\ UNCHANGED <<version, fs_kind, fs_denied, current_dir, nav, nav_sel,
                   ext_filter, name_filter, phase, selected_files, out_file, crash>>

\* double click / Return: FileNavigator._enter_dir on a folder row
EnterDir ==
    /\ phase = "picking"
    /\ nav_sel # {}
    /\ LET entry == nav[curselection(nav_sel)[1]]
           target == IF version = "txt"
                     THEN Join(current_dir,
                               RStripChar(Drop(entry, Len(FOLDER_PREFIX)), 47))
                     ELSE Join(current_dir, Drop(entry, 6))
           r == refresh(target, <<>>)
       IN /\ StartsWith(entry, IF version = "txt" THEN FOLDER_PREFIX ELSE DIR_PREFIX)
          /\ Refreshed(r)
          /\ dialog' = r.dialog
    /\ last_cmd' = "other"
    /\ UNCHANGED <<version, fs_kind, fs_denied, cart, cart_files, ext_filter,
                   selected_files, out_file, crash>>

\* Back button / BackSpace: FileNavigator._go_up
GoUp ==
    /\ phase = "picking"
    /\ Parent(current_dir) # current_dir
    /\ LET r == go_up(current_dir, name_filter)
       IN Refreshed(r) /\ dialog' = r.dialog
    /\ last_cmd' = "other"
    /\ UNCHANGED <<version, fs_kind, fs_denied, cart, cart_files, ext_filter,
                   selected_files, out_file, crash>>

\* Home button: FileNavigator._go_home
GoHome ==
    /\ phase = "picking"
    /\ LET r == refresh(Home, <<>>)
       IN Refreshed(r) /\ dialog' = r.dialog
    /\ last_cmd' = "other"
    /\ UNCHANGED <<version, fs_kind, fs_denied, cart, cart_files, ext_filter,
                   selected_files, out_file, crash>>

\* the text of the search entry changes (txt): a key pressed, or a paste.
\* No callback of the picker runs; the rows stay as they are.
TypeSearch ==
    /\ phase = "picking"
    /\ version = "txt"
    /\ \E t \in NameFilters : t # name_filter /\ name_filter' = t
    /\ raised' = "none"
    /\ dialog' = "none"
    /\ last_cmd' = "other"
    /\ UNCHANGED <<version, fs_kind, fs_denied, current_dir, nav, nav_sel, cart,
                   cart_files, ext_filter, phase, selected_files, out_file, crash>>

\* a key released in the search entry (txt): _refresh runs on the text the
\* entry holds
Search ==
    /\ phase = "picking"
    /\ version = "txt"
    /\ LET r == refresh_txt(current_dir, name_filter)
       IN Refreshed(r) /\ dialog' = r.dialog
    /\ last_cmd' = "other"
    /\ UNCHANGED <<version, fs_kind, fs_denied, cart, cart_files, ext_filter,
                   selected_files, out_file, crash>>

\* the user dismisses the message box of _refresh: mb.showerror returns and
\* _go_up lists the parent (and may meet the next directory without
\* permission)
DismissDialog ==
    /\ phase = "dialog"
    /\ IF Parent(current_dir) # current_dir
       THEN Refreshed(go_up(current_dir, name_filter))
       ELSE /\ phase' = "picking"
            /\ raised' = "none"
            /\ UNCHANGED <<current_dir, name_filter, nav, nav_sel>>
    /\ dialog' = "showerror"
    /\ last_cmd' = "other"
    /\ UNCHANGED <<version, fs_kind, fs_denied, cart, cart_files, ext_filter,
                   selected_files, out_file, crash>>

\* the user dismisses the message box of _accept: mb.showwarning returns
\* and so does the callback
DismissWarning ==
    /\ phase = "warning"
    /\ phase' = "picking"
    /\ raised' = "none"
    /\ dialog' = "showwarning"
    /\ last_cmd' = "accept"
    /\ UNCHANGED <<version, fs_kind, fs_denied, current_dir, nav, nav_sel, cart,
                   cart_files, ext_filter, name_filter, selected_files, out_file,
                   crash>>

\* the user closes the picker's window while a message box is open.
\* txt: the picker is the root window, the box is its child and goes with
\* it; the call of mb.showerror / mb.showwarning raises TclError, which
\* leaves the callback (the _go_up after mb.showerror is not reached).
\* pdf: the picker is a Toplevel, the box belongs to the withdrawn root and
\* stays open.
CloseDuringDialog ==
    /\ phase \in {"dialog", "warning"}
    /\ nav' = <<>>
    /\ nav_sel' = {}
    /\ cart' = <<>>
    /\ IF version = "txt"
       THEN /\ phase' = "closed"
            /\ raised' = "TclError"
            /\ last_cmd' = IF phase = "warning" THEN "accept" ELSE "close"
       ELSE /\ phase' = IF phase = "dialog" THEN "dialog_closed" ELSE "warning_closed"
            /\ raised' = "none"
            /\ last_cmd' = "close"
    /\ UNCHANGED <<version, fs_kind, fs_denied, current_dir, name_filter, cart_files,
                   ext_filter, selected_files, out_file, crash, dialog>>

\* pdf: the user dismisses the box that outlived the picker.  After
\* mb.showerror, _go_up assigns current_dir and its _refresh fails in
\* self.nav_list.delete with TclError; after mb.showwarning, _accept
\* returns.  wait_window returns to __main__.
DismissAfterClose ==
    /\ phase \in {"dialog_closed", "warning_closed"}
    /\ phase' = "closed"
    /\ IF phase = "dialog_closed" /\ Parent(current_dir) # current_dir
       THEN /\ current_dir' = Parent(current_dir)
            /\ raised' = "TclError"
       ELSE /\ raised' = "none"
            /\ UNCHANGED current_dir
    /\ last_cmd' = IF phase = "warning_closed" THEN "accept" ELSE "close"
    /\ UNCHANGED <<version, fs_kind, fs_denied, nav, nav_sel, cart, cart_files,
                   ext_filter, name_filter, selected_files, out_file, crash, dialog>>

\* the user edits the extension filter (txt); no callback runs
TypeExtFilter ==
    /\ phase = "picking"
    /\ version = "txt"
    /\ \E t \in ExtFilters : t # ext_filter /\ ext_filter' = t
    /\ raised' = "none"
    /\ dialog' = "none"
    /\ last_cmd' = "other"
    /\ UNCHANGED <<version, fs_kind, fs_denied, current_dir, nav, nav_sel, cart,
                   cart_files, name_filter, phase, selected_files, out_file, crash>>

\* destroy(): the window and its Listboxes are gone
Destroyed ==
    /\ phase' = "closed"
    /\ nav' = <<>>
    /\ nav_sel' = {}
    /\ cart' = <<>>

\* Generate TXT button: FileNavigator._accept; with an empty cart it waits
\* in mb.showwarning
Accept ==
    /\ phase = "picking"
    /\ IF cart_files = <<>>
       THEN /\ dialog' = "showwarning"
            /\ phase' = "warning"
            /\ UNCHANGED <<selected_files, nav, nav_sel, cart>>
       ELSE /\ selected_files' = cart_files
            /\ Destroyed
            /\ dialog' = "none"
    /\ raised' = "none"
    /\ last_cmd' = "accept"
    /\ UNCHANGED <<version, fs_kind, fs_denied, current_dir, cart_files,
                   ext_filter, name_filter, out_file, crash>>

\* Cancel button: FileNavigator._cancel
Cancel ==
    /\ phase = "picking"
    /\ selected_files' = <<>>
    /\ Destroyed
    /\ raised' = "none"
    /\ dialog' = "none"
    /\ last_cmd' = "cancel"
    /\ UNCHANGED <<version, fs_kind, fs_denied, current_dir, cart_files,
                   ext_filter, name_filter, out_file, crash>>

\* the user closes the window: Tk destroys it, no callback of the picker
\* runs and selected_files is never assigned
CloseWindow ==
    /\ phase = "picking"
    /\ Destroyed
    /\ raised' = "none"
    /\ dialog' = "none"
    /\ last_cmd' = "close"
    /\ UNCHANGED <<version, fs_kind, fs_denied, current_dir, cart_files,
                   ext_filter, name_filter, selected_files, out_file, crash>>

AllOutcomes == [p \in Universe |-> ReadOutcome(p)]

\* combine_files_to_txt.py __main__ after root.mainloop() returns
MainTxt ==
    /\ phase = "closed"
    /\ version = "txt"
    /\ IF selected_files # "unset" /\ selected_files # <<>>
       THEN LET w == create_txt(selected_files, AllOutcomes)
            IN /\ out_file' = w.doc
               /\ dialog' = IF w.exc = "none" THEN "showinfo" ELSE "showerror"
       ELSE UNCHANGED <<out_file, dialog>>
    /\ crash' = "none"
    /\ phase' = "done"
    /\ UNCHANGED <<version, fs_kind, fs_denied, current_dir, nav, nav_sel, cart,
                   cart_files, ext_filter, name_filter, selected_files, raised,
                   last_cmd>>

\* combine_files_to_pdf.py __main__ after root.wait_window(picker) returns;
\* reading picker.selected_files raises AttributeError when it was never set
MainPdf ==
    /\ phase = "closed"
    /\ version = "pdf"
    /\ IF selected_files = "unset"
       THEN /\ crash' = "AttributeError"
            /\ UNCHANGED <<out_file, dialog>>
       ELSE IF selected_files = <<>>
       THEN /\ crash' = "none"
            /\ UNCHANGED <<out_file, dialog>>
       ELSE LET w == export_to_txt(selected_files, AllOutcomes)
            IN /\ out_file' = w.doc
               /\ dialog' = IF w.exc = "none" THEN "showinfo" ELSE "showerror"
               /\ crash' = "none"
    /\ phase' = "done"
    /\ UNCHANGED <<version, fs_kind, fs_denied, current_dir, nav, nav_sel, cart,
                   cart_files, ext_filter, name_filter, selected_files, raised,
                   last_cmd>>

\* the phases in which the picker, or a message box of one of its
\* callbacks, is open
WindowPhases == {"picking", "dialog", "warning", "dialog_closed", "warning_closed"}

\* another process replaces a file by a directory of the same name, or back
EnvReplace ==
    /\ phase \in WindowPhases
    /\ \E p \in Replaceable :
          fs_kind' = [fs_kind EXCEPT ![p] = IF @ = "file" THEN "dir" ELSE "file"]
    /\ last_cmd' = "other"
    /\ UNCHANGED <<version, fs_denied, current_dir, nav, nav_sel, cart, cart_files,
                   ext_filter, name_filter, phase, selected_files, out_file, crash,
                   raised, dialog>>

\* another process takes away, or gives back, the permission to list a directory
EnvChmod ==
    /\ phase \in WindowPhases
    /\ \E p \in Deniable :
          fs_denied' = IF p \in fs_denied THEN fs_denied \ {p} ELSE fs_denied \cup {p}
    /\ last_cmd' = "other"
    /\ UNCHANGED <<version, fs_kind, current_dir, nav, nav_sel, cart, cart_files,
                   ext_filter, name_filter, phase, selected_files, out_file, crash,
                   raised, dialog>>

Next ==
    \/ Select /\ UNCHANGED <<log, call, ret>>
    \/ AddSelected /\ UNCHANGED <<log, call, ret>>
    \/ RemoveSelected /\ UNCHANGED <<log, call, ret>>
    \/ EnterDir /\ UNCHANGED <<log, call, ret>>
    \/ GoUp /\ UNCHANGED <<log, call, ret>>
    \/ GoHome /\ UNCHANGED <<log, call, ret>>
    \/ TypeSearch /\ UNCHANGED <<log, call, ret>>
    \/ Search /\ UNCHANGED <<log, call, ret>>
    \/ DismissDialog /\ UNCHANGED <<log, call, ret>>
    \/ DismissWarning /\ UNCHANGED <<log, call, ret>>
    \/ CloseDuringDialog /\ UNCHANGED <<log, call, ret>>
    \/ DismissAfterClose /\ UNCHANGED <<log, call, ret>>
    \/ TypeExtFilter /\ UNCHANGED <<log, call, ret>>
    \/ Accept /\ UNCHANGED <<log, call, ret>>
    \/ Cancel /\ UNCHANGED <<log, call, ret>>
    \/ CloseWindow /\ UNCHANGED <<log, call, ret>>
    \/ MainTxt /\ UNCHANGED <<log, call, ret>>
    \/ MainPdf /\ UNCHANGED <<log, call, ret>>
    \/ EnvReplace /\ UNCHANGED <<log, call, ret>>
    \/ EnvChmod /\ UNCHANGED <<log, call, ret>>

Spec == Init /\ [][Next]_vars

(***************************************************************************)
(* The picker with the history of its add and remove events: the log gets  *)
(* <<"add", p>> for every path an Add appends and <<"remove", p>> for      *)
(* every path a Remove takes out.  The filesystem stays as it is.          *)
(***************************************************************************)
MaxRemoves == 2

RemoveCount == Cardinality({i \in 1..Len(log) : log[i][1] = "remove"})

LogAdds ==
    log' = log \o [i \in 1..(Len(cart_files') - Len(cart_files)) |->
                      <<"add", cart_files'[Len(cart_files) + i]>>]

LogRemoves ==
    log' = IF Len(cart_files') < Len(cart_files)
           THEN Append(log, <<"remove",
                    CHOOSE q \in Range(cart_files) : ~InSeq(q, cart_files')>>)
           ELSE log

NextOrder ==
    \/ Select /\ UNCHANGED <<log, call, ret>>
    \/ AddSelected /\ LogAdds /\ UNCHANGED <<call, ret>>
    \/ RemoveCount < MaxRemoves /\ RemoveSelected /\ LogRemoves /\ UNCHANGED <<call, ret>>

SpecOrder == Init /\ [][NextOrder]_vars

(***************************************************************************)
(* Function specifications: one call of a function on an input drawn from  *)
(* a bounded set; the picker's state stays idle.                           *)
(***************************************************************************)
GuiIdle ==
    /\ version = "txt"
    /\ fs_kind = <<>>
    /\ fs_denied = {}
    /\ current_dir = <<>>
    /\ nav = <<>>
    /\ cart = <<>>
    /\ cart_files = <<>>
    /\ ext_filter = <<>>
    /\ name_filter = <<>>
    /\ phase = "idle"
    /\ selected_files = "unset"
    /\ out_file = "none"
    /\ raised = "none"
    /\ crash = "none"
    /\ dialog = "none"
    /\ nav_sel = {}
    /\ last_cmd = "none"
    /\ log = <<>>

\* all sequences over alphabet of length at most n
SeqsUpTo(alphabet, n) == UNION {[1..k -> alphabet] : k \in 0..n}

\* a run of blocks <<count, value>> laid end to end
Blocks(bs) == Flatten([i \in 1..Len(bs) |-> Repeat(bs[i][2], bs[i][1])])

\* ---- is_binary ----
MaxSampleLen == 3
SampleBytes == {0, 8, 9, 10, 13, 31, 32, 127, 128}

\* files around the threshold (k control bytes among n), at the sample's
\* end (2048 bytes), and longer than the sample
BoundaryFiles ==
    {Blocks(<<<<k, 1>>, <<10 - k, 65>>>>) : k \in 2..4}
    \cup {Blocks(<<<<k, 127>>, <<1000 - k, 65>>>>) : k \in 299..301}
    \cup {Blocks(<<<<2048 - k, 200>>, <<k, 27>>>>) : k \in 614..615}
    \cup {Blocks(<<<<2048, 65>>, <<1, b>>>>) : b \in {0, 1}}
    \cup {Blocks(<<<<1400, 65>>, <<648, 1>>, <<2000, 65>>>>),
          Blocks(<<<<1434, 65>>, <<614, 1>>, <<2000, 1>>>>)}

SniffInputs ==
    {[ok |-> FALSE]}
    \cup {[ok |-> TRUE, bytes |-> b] : b \in SeqsUpTo(SampleBytes, MaxSampleLen)}
    \cup {[ok |-> TRUE, bytes |-> b] : b \in BoundaryFiles}

InitClassify ==
    /\ GuiIdle
    /\ call \in {[fn |-> "is_binary", rd |-> r] : r \in SniffInputs}
    /\ ret = <<>>

CallIsBinary ==
    /\ call.fn = "is_binary"
    /\ ret = <<>>
    /\ ret' = <<is_binary(call.rd)>>
    /\ UNCHANGED <<call, gui_vars>>

NextClassify == CallIsBinary

SpecClassify == InitClassify /\ [][NextClassify]_vars

\* ---- _allowed_ext ----
MaxFilterLen == 3
\* ',', ' ', '.', 'p', 'P', 'q'
FilterChars == {44, 32, 46, 112, 80, 113}
\* a.p  a.P  a.q  a  .p  a.  a.q.p  p
FileNames ==
    {<<97, 46, 112>>, <<97, 46, 80>>, <<97, 46, 113>>, <<97>>, <<46, 112>>,
     <<97, 46>>, <<97, 46, 113, 46, 112>>, <<112>>}

InitExt ==
    /\ GuiIdle
    /\ call \in {[fn |-> "allowed_ext", text |-> t, name |-> n] :
                    t \in SeqsUpTo(FilterChars, MaxFilterLen), n \in FileNames}
    /\ ret = <<>>

CallAllowedExt ==
    /\ call.fn = "allowed_ext"
    /\ ret = <<>>
    /\ ret' = <<allowed_ext(call.text, call.name)>>
    /\ UNCHANGED <<call, gui_vars>>

NextExt == CallAllowedExt

SpecExt == InitExt /\ [][NextExt]_vars

\* ---- create_txt / export_to_txt ----
MaxPaths == 2
\* /a   /h/b.p   a path of 80 characters   a path of 81 characters
WriterPaths ==
    {<<<<97>>>>, <<<<104>>, <<98, 46, 112>>>>, <<Repeat(120, 79)>>,
     <<Repeat(120, 80)>>}
\* ""  "hi"  "hi \n\n"  " \n"  "a\r\nb\r"  "w\xff\r\n"  and two failures
ReadOutcomes ==
    {[ok |-> TRUE, bytes |-> b] :
        b \in {<<>>, <<104, 105>>, <<104, 105, 32, 10, 10>>, <<32, 10>>,
               <<97, 13, 10, 98, 13>>, <<119, 255, 13, 10>>}}
    \cup {[ok |-> FALSE, exc |-> e] : e \in {"FileNotFoundError", "PermissionError"}}

\* lists of distinct paths, at most n long
PathLists(paths, n) ==
    {l \in SeqsUpTo(paths, n) : \A i, j \in 1..Len(l) : i # j => l[i] # l[j]}

InitWrite ==
    /\ GuiIdle
    /\ \E l \in PathLists(WriterPaths, MaxPaths) :
       \E r \in [Range(l) -> ReadOutcomes] :
       \E f \in {"create_txt", "export_to_txt"} :
           call = [fn |-> f, paths |-> l, rd |-> r]
    /\ ret = <<>>

CallCreateTxt ==
    /\ call.fn = "create_txt"
    /\ ret = <<>>
    /\ ret' = <<create_txt(call.paths, call.rd)>>
    /\ UNCHANGED <<call, gui_vars>>

CallExportToTxt ==
    /\ call.fn = "export_to_txt"
    /\ ret = <<>>
    /\ ret' = <<export_to_txt(call.paths, call.rd)>>
    /\ UNCHANGED <<call, gui_vars>>

NextWrite == CallCreateTxt \/ CallExportToTxt

SpecWrite == InitWrite /\ [][NextWrite]_vars

\* ---- _remove_selected ----
MaxCart == 3
RemovePaths == {PathF, PathB, PathC, PathE}

\* the handler on a cart the picker can hold: no path twice, and the rows of
\* the cart Listbox are the paths of cart_files, one for one (every append
\* inserts a row, every removal deletes it); at most one row is selected
InitRemove ==
    /\ GuiIdle
    /\ \E l \in PathLists(RemovePaths, MaxCart) :
       \E sel \in {<<>>} \cup {<<i>> : i \in 1..Len(l)} :
           call = [fn |-> "remove_selected", cart_files |-> l,
                   cart |-> [i \in 1..Len(l) |-> PathStr(l[i])], rows |-> sel]
    /\ ret = <<>>

CallRemoveSelected ==
    /\ call.fn = "remove_selected"
    /\ ret = <<>>
    /\ ret' = <<remove_selected([cart_files |-> call.cart_files, cart |-> call.cart,
                                 exc |-> "none"], Reversed(call.rows))>>
    /\ UNCHANGED <<call, gui_vars>>

NextRemove == CallRemoveSelected

SpecRemove == InitRemove /\ [][NextRemove]_vars

(***************************************************************************)
(* Claims about the functions                                              *)
(***************************************************************************)
\* number of bytes of s that are below 32 and not tab, LF or CR, or are DEL
ControlCount(s) ==
    Cardinality({i \in 1..Len(s) :
        (s[i] \in 0..31 \ {9, 10, 13}) \/ s[i] = 127})

\* C7: for every byte sample (the first 2048 bytes of the file) the
\* classifier answers BINARY if the sample holds a NUL byte, otherwise BINARY
\* exactly when the share of control bytes (below 32 and not 9, 10, 13, or
\* 127) is strictly above 30 %, and TEXT otherwise; 301 of 1000 is BINARY,
\* 300 of 1000 is TEXT and the empty sample is TEXT.
C7_Classifier ==
    (call.fn = "is_binary" /\ ret # <<>> /\ call.rd.ok) =>
        LET sample == SubSeq(call.rd.bytes, 1, Min(2048, Len(call.rd.bytes)))
            n == Len(sample)
            k == ControlCount(sample)
            nul == \E i \in 1..n : sample[i] = 0
            expected == IF nul THEN TRUE
                        ELSE IF n = 0 THEN FALSE
                        ELSE 10 * k > 3 * n
        IN /\ ret[1] = expected
           /\ (n = 1000 /\ k = 301) => ret[1] = TRUE
           /\ (n = 1000 /\ k = 300) => ret[1] = FALSE
           /\ n = 0 => ret[1] = FALSE

\* C7 witness: a NUL-free 1000-byte sample with exactly 300 control bytes
\* has been classified TEXT
C7_Witness ==
    /\ call.fn = "is_binary" /\ ret = <<FALSE>> /\ call.rd.ok
    /\ Len(call.rd.bytes) = 1000
    /\ ControlCount(call.rd.bytes) = 300

\* the set of allowed extensions the filter text denotes: one lower-cased,
\* dot-normalised extension per non-blank comma-separated field
ClaimedExtensions(text) ==
    LET fields == Split(text, 44)
    IN {<<46>> \o Lower(LStripChar(Strip(fields[i]), 46)) :
           i \in {k \in 1..Len(fields) : Strip(fields[k]) # <<>>}}

\* C8: the extension check is true for every path when the set of allowed
\* extensions is empty, and otherwise true exactly when the path's
\* lower-cased extension is in the set, for every filter text, commas and
\* spaces only included.
C8_ExtensionCheck ==
    (call.fn = "allowed_ext" /\ ret # <<>>) =>
        ret[1] = (\/ ClaimedExtensions(call.text) = {}
                  \/ Lower(Suffix(call.name)) \in ClaimedExtensions(call.text))

\* the block the text format prescribes for one entry
ClaimedBlock(p, content) ==
    PathStr(p) \o <<10>>
    \o Repeat(61, IF Len(PathStr(p)) < 80 THEN Len(PathStr(p)) ELSE 80)
    \o <<10>> \o <<10>> \o RStrip(content) \o <<10>> \o <<10>>

WriterCallDone == call.fn \in {"create_txt", "export_to_txt"} /\ ret # <<>>

AllReadable == \A p \in Range(call.paths) : call.rd[p].ok

\* C9: the exported document is exactly one block per entry, in cart order:
\* the path, a rule of min(80, len(path)) '=' signs, a blank line, the content
\* with trailing whitespace trimmed, a blank line; nothing before the first
\* path line.
C9_DocumentFormat ==
    (WriterCallDone /\ AllReadable) =>
        ret[1].doc = Flatten([i \in 1..Len(call.paths) |->
            ClaimedBlock(call.paths[i],
                         read_content(call.rd[call.paths[i]].bytes))])

\* C6: an entry that cannot be read is skipped and the export goes on: the
\* writer returns normally and every readable entry has its record (its path
\* line and rule) in the document.
C6_UnreadableSkipped ==
    (WriterCallDone /\ ~AllReadable) =>
        /\ ret[1].exc = "none"
        /\ \A p \in Range(call.paths) :
              call.rd[p].ok =>
                  Contains(ret[1].doc, PathStr(p) \o <<10, 61>>)

\* what the writers do instead (not a claim): export_to_txt keeps the
\* format on readable lists, and both stop at the first unreadable entry
WriterBehaviour ==
    WriterCallDone =>
        /\ (call.fn = "export_to_txt" /\ AllReadable) => C9_DocumentFormat
        /\ ~AllReadable => ret[1].exc # "none"
        /\ AllReadable => ret[1].exc = "none"

(***************************************************************************)
(* Claims about the picker                                                 *)
(***************************************************************************)
NoDuplicates(l) == \A i, j \in 1..Len(l) : i # j => l[i] # l[j]

IsFolderRow(entry) ==
    StartsWith(entry, IF version = "txt" THEN FOLDER_PREFIX ELSE DIR_PREFIX)

\* the path a navigator row stands for
RowPath(entry) ==
    IF ~IsFolderRow(entry) THEN current_dir \o <<entry>>
    ELSE IF version = "txt"
         THEN current_dir \o <<SubSeq(entry, Len(FOLDER_PREFIX) + 1, Len(entry) - 1)>>
         ELSE current_dir \o <<SubSeq(entry, Len(DIR_PREFIX) + 1, Len(entry))>>

\* every selected row is a file row whose path is in the cart already
OnlyReAdds ==
    /\ nav_sel # {}
    /\ \A i \in nav_sel : ~IsFolderRow(nav[i]) /\ InSeq(RowPath(nav[i]), cart_files)

\* C1: after any sequence of add, remove and navigation operations the cart
\* holds no path twice, and an add of paths that are already in the cart
\* leaves the cart unchanged.
C1_NoDuplicates ==
    [][/\ NoDuplicates(cart_files')
       /\ NoDuplicates(cart')
       /\ (last_cmd' = "readd" /\ OnlyReAdds) => cart_files' = cart_files]_vars

\* C1 witness: an add whose selection named a path already in the cart has
\* run, and the cart holds two paths
C1_Witness == last_cmd = "readd" /\ Len(cart_files) = 2 /\ phase = "picking"

\* C3: when the cart is empty at export time no output file is produced and
\* no exception propagates, however the session ended (Generate, Cancel or
\* closing the window).
C3_EmptyCartNoOutput ==
    /\ (phase = "done" /\ cart_files = <<>>) => (out_file = "none" /\ crash = "none")
    /\ (last_cmd = "accept" /\ cart_files = <<>>) =>
           (out_file = "none" /\ crash = "none" /\ raised = "none")

\* C5: the cart holds only regular files: whatever a step puts into the cart
\* is a regular file when it is put there, whatever the (possibly stale)
\* listing showed.
C5_OnlyRegularFiles ==
    [][\A i \in 1..Len(cart_files') :
          ~InSeq(cart_files'[i], cart_files) => is_file(cart_files'[i])]_vars

\* the directories on the way from folder down to file f (folder included)
DirsBetween(folder, f) == {SubSeq(f, 1, n) : n \in Len(folder)..(Len(f) - 1)}

\* the files an add of folder has to bring in: below the folder (directly
\* inside it for the shallow add of the pdf script), through directories
\* that can be listed, and passing the filter of the txt script
Expected(folder) ==
    {f \in Universe :
        /\ is_file(f)
        /\ Len(f) > Len(folder)
        /\ SubSeq(f, 1, Len(folder)) = folder
        /\ version = "pdf" => Len(f) = Len(folder) + 1
        /\ \A d \in DirsBetween(folder, f) : is_dir(d) /\ d \notin fs_denied
        /\ version = "txt" =>
               (allowed_ext(ext_filter, f[Len(f)]) /\ ~is_binary(ReadOutcome(f)))}

\* a selected folder, or a directory below it, cannot be listed
DeniedUnderSelection ==
    \E i \in nav_sel :
        /\ IsFolderRow(nav[i])
        /\ \E d \in fs_denied :
              Len(d) >= Len(RowPath(nav[i]))
              /\ SubSeq(d, 1, Len(RowPath(nav[i]))) = RowPath(nav[i])

\* C10: a permission error on a folder being added, or on a directory below
\* it, skips only that directory: the add does not raise, the files of the
\* directories that can be listed are added, and so are the other selected
\* entries.
C10_DeniedDirectorySkipped ==
    (last_cmd \in {"add", "readd"} /\ DeniedUnderSelection) =>
        /\ raised = "none"
        /\ \A i \in nav_sel :
              IF IsFolderRow(nav[i])
              THEN \A f \in Expected(RowPath(nav[i])) : InSeq(f, cart_files)
              ELSE (/\ is_file(RowPath(nav[i]))
                    /\ version = "txt" =>
                          (/\ allowed_ext(ext_filter, nav[i])
                           /\ ~is_binary(ReadOutcome(RowPath(nav[i])))))
                   => InSeq(RowPath(nav[i]), cart_files)

\* what the txt script does (not a claim): it keeps C5 and C10
TxtBehaviour == version = "txt" => C10_DeniedDirectorySkipped

TxtOnlyRegularFiles ==
    [][version = "txt" =>
          \A i \in 1..Len(cart_files') :
              ~InSeq(cart_files'[i], cart_files) => is_file(cart_files'[i])]_vars

\* C4: removing a path that is not in the cart is a no-op, without an
\* exception and with the cart unchanged; a path that is in the cart is
\* removed by exact match.
C4_RemoveAbsentIsNoOp ==
    (call.fn = "remove_selected" /\ ret # <<>> /\ call.rows # <<>>) =>
        LET path == call.cart[call.rows[1]]
            present == \E i \in 1..Len(call.cart_files) : PathStr(call.cart_files[i]) = path
        IN IF present
           THEN /\ ret[1].exc = "none"
                /\ ret[1].cart_files =
                       SelectSeq(call.cart_files, LAMBDA q : PathStr(q) # path)
           ELSE /\ ret[1].exc = "none"
                /\ ret[1].cart_files = call.cart_files

\* the case C4 is about: the selected row of the cart names a path that is
\* not in cart_files
RemoveOfAbsentPath ==
    /\ call.fn = "remove_selected"
    /\ call.rows # <<>>
    /\ ~InSeq(ParsePath(call.cart[call.rows[1]]), call.cart_files)

\* the handler is never given that case: every row of the cart names a path
\* of the list, so list.remove finds it and no ValueError is raised
RemoveBehaviour ==
    /\ ~RemoveOfAbsentPath
    /\ (call.fn = "remove_selected" /\ ret # <<>>) => ret[1].exc = "none"

\* the same in the picker: the rows of the cart Listbox are the paths of
\* cart_files, and no Remove ends in an exception
CartRowsMirrorList ==
    /\ phase = "picking" => cart = [i \in 1..Len(cart_files) |-> PathStr(cart_files[i])]
    /\ last_cmd = "remove" => raised = "none"

\* the paths of the add events of the log, in order
AddOrder == [i \in 1..Len(SelectSeq(log, LAMBDA e : e[1] = "add")) |->
                SelectSeq(log, LAMBDA e : e[1] = "add")[i][2]]

RemovedEver == {log[i][2] : i \in {k \in 1..Len(log) : log[k][1] = "remove"}}

\* C2 as stated: the cart is the add order restricted to the files that were
\* never removed, a file removed and added again included.
C2_Original ==
    phase = "picking" =>
        cart_files = SelectSeq(AddOrder, LAMBDA q : q \notin RemovedEver)

\* the add events that no later event about the same path follows
StandingAdds ==
    {i \in 1..Len(log) :
        /\ log[i][1] = "add"
        /\ \A j \in (i + 1)..Len(log) : log[j][2] # log[i][2]}

\* C2 amended: the cart is the add order restricted to the latest add of
\* each file that has not been removed since then; a file that is removed
\* and added again stands at the place of its latest add.
C2_OrderOfStandingAdds ==
    phase = "picking" =>
        /\ Len(cart_files) = Cardinality(StandingAdds)
        /\ \A i, j \in StandingAdds :
              i < j => \E a, b \in 1..Len(cart_files) :
                          a < b /\ cart_files[a] = log[i][2] /\ cart_files[b] = log[j][2]
        /\ \A i \in StandingAdds : InSeq(log[i][2], cart_files)

\* C2 witness: a file was added, removed and added again while another file
\* stayed in the cart
C2_Witness ==
    /\ phase = "picking"
    /\ Len(cart_files) >= 2
    /\ \E i, j, k \in 1..Len(log) :
          /\ i < j /\ j < k
          /\ log[i][1] = "add" /\ log[j] = <<"remove", log[i][2]>> /\ log[k] = log[i]
          /\ \E m \in 1..(j - 1) : log[m][1] = "add" /\ log[m][2] \notin RemovedEver

====
